---------------------------- MODULE Spec2Model ----------------------------
(***************************************************************************)
(* The numeric literal model of darklua (src/nodes/expressions/number.rs): *)
(* DecimalNumber, HexNumber, NumberExpression, the FromStr parser and      *)
(* compute_value.                                                          *)
(*                                                                         *)
(* A text is a sequence of one-character strings.  Integers wider than     *)
(* TLC's own are kept as little-endian bit sequences without high zero     *)
(* bits (<<>> is 0), so the u64, u32 and i64 limits of the code are the    *)
(* real ones.  A float is an exact decimal sig * 10^pow (or inf / nan);    *)
(* this is faithful for mantissas of at most 15 significant digits, which  *)
(* is every mantissa the model feeds to the parser.                        *)
(***************************************************************************)
EXTENDS Integers, Sequences, FiniteSets, TLC

VARIABLES text, result, number, initial, lastArg, computed, overflow_checks, pc

vars == <<text, result, number, initial, lastArg, computed, overflow_checks, pc>>

(***************************************************************************)
(* Bounds of the model                                                     *)
(***************************************************************************)
\* longest enumerated body of an input text (the part after the prefix)
MaxLen == 4

(***************************************************************************)
(* Widths of the integer types of the code                                 *)
(***************************************************************************)
U64Bits == 64
U32Bits == 32
I64Bits == 64
None == [some |-> FALSE]
Some(v) == [some |-> TRUE, v |-> v]

(***************************************************************************)
(* Wide naturals as bit sequences                                          *)
(***************************************************************************)
RECURSIVE Norm(_)
Norm(b) ==
    IF b = <<>> THEN <<>>
    ELSE IF b[Len(b)] = 0 THEN Norm(SubSeq(b, 1, Len(b) - 1))
    ELSE b

RECURSIVE FromNat(_)
FromNat(n) == IF n = 0 THEN <<>> ELSE <<n % 2>> \o FromNat(n \div 2)

RECURSIVE ToNat(_)
ToNat(b) == IF b = <<>> THEN 0 ELSE b[1] + 2 * ToNat(Tail(b))

BitLen(b) == Len(b)

RECURSIVE Zeros(_)
Zeros(n) == IF n = 0 THEN <<>> ELSE <<0>> \o Zeros(n - 1)

ShiftLeft(b, n) == IF b = <<>> THEN <<>> ELSE Zeros(n) \o b

RECURSIVE AddCarry(_, _, _)
AddCarry(a, b, c) ==
    IF a = <<>> /\ b = <<>> THEN (IF c = 0 THEN <<>> ELSE <<c>>)
    ELSE LET x == IF a = <<>> THEN 0 ELSE a[1]
             y == IF b = <<>> THEN 0 ELSE b[1]
             s == x + y + c
             ra == IF a = <<>> THEN <<>> ELSE Tail(a)
             rb == IF b = <<>> THEN <<>> ELSE Tail(b)
         IN  <<s % 2>> \o AddCarry(ra, rb, s \div 2)

AddBits(a, b) == Norm(AddCarry(a, b, 0))

\* a * r for a small multiplier r (the radix)
RECURSIVE MulSmall(_, _)
MulSmall(a, r) ==
    IF r = 0 THEN <<>>
    ELSE AddBits(IF r % 2 = 1 THEN a ELSE <<>>,
                 ShiftLeft(MulSmall(a, r \div 2), 1))

\* the low w bits of b (wrapping arithmetic modulo 2^w)
Wrap(b, w) == Norm(IF Len(b) > w THEN SubSeq(b, 1, w) ELSE b)

\* 2^n
PowerOfTwo(n) == Zeros(n) \o <<1>>

\* 2^n - 1
RECURSIVE Ones(_)
Ones(n) == IF n = 0 THEN <<>> ELSE <<1>> \o Ones(n - 1)

(***************************************************************************)
(* Characters                                                              *)
(***************************************************************************)
DecChars == <<"0", "1", "2", "3", "4", "5", "6", "7", "8", "9">>
LowerHex == <<"a", "b", "c", "d", "e", "f">>
UpperHex == <<"A", "B", "C", "D", "E", "F">>

IsDigit(c) == \E i \in 1..Len(DecChars) : DecChars[i] = c

\* char::to_digit(radix): the digit's value, or -1 for None
ToDigit(c, radix) ==
    IF \E i \in 1..Len(DecChars) : DecChars[i] = c /\ i - 1 < radix
    THEN (CHOOSE i \in 1..Len(DecChars) : DecChars[i] = c) - 1
    ELSE IF \E i \in 1..Len(LowerHex) : LowerHex[i] = c /\ i + 9 < radix
    THEN (CHOOSE i \in 1..Len(LowerHex) : LowerHex[i] = c) + 9
    ELSE IF \E i \in 1..Len(UpperHex) : UpperHex[i] = c /\ i + 9 < radix
    THEN (CHOOSE i \in 1..Len(UpperHex) : UpperHex[i] = c) + 9
    ELSE -1

\* str::find of a one-character pattern: the 1-based index of the first
\* occurrence, 0 for None
Find(s, c) ==
    IF \E i \in 1..Len(s) : s[i] = c
    THEN CHOOSE i \in 1..Len(s) : s[i] = c /\ \A j \in 1..(i - 1) : s[j] # c
    ELSE 0

StartsWith(s, p) == Len(s) >= Len(p) /\ SubSeq(s, 1, Len(p)) = p

From(s, i) == SubSeq(s, i, Len(s))

(***************************************************************************)
(* The integer parsers of the standard library (str::parse,                *)
(* from_str_radix) that from_str calls                                     *)
(***************************************************************************)
Err == [ok |-> FALSE]
Ok(v) == [ok |-> TRUE, v |-> v]

\* the digit loop: acc = acc * radix + digit, checked against the width
RECURSIVE DigitLoop(_, _, _, _)
DigitLoop(s, radix, acc, width) ==
    IF s = <<>> THEN Ok(acc)
    ELSE LET d == ToDigit(s[1], radix) IN
         IF d < 0 THEN Err
         ELSE LET next == AddBits(MulSmall(acc, radix), FromNat(d)) IN
              IF BitLen(next) > width THEN Err
              ELSE DigitLoop(Tail(s), radix, next, width)

\* an unsigned type: an optional '+', then digits; '-' is no digit
ParseUnsigned(s, radix, width) ==
    IF s = <<>> THEN Err
    ELSE IF s[1] \in {"+", "-"} /\ Len(s) = 1 THEN Err
    ELSE IF s[1] = "+" THEN DigitLoop(Tail(s), radix, <<>>, width)
    ELSE DigitLoop(s, radix, <<>>, width)

\* a signed value: sign and magnitude
IntVal(neg, mag) == [neg |-> neg /\ mag # <<>>, mag |-> mag]

\* i64: an optional '+' or '-', then digits; the range is
\* -2^63 .. 2^63 - 1
ParseI64(s) ==
    IF s = <<>> THEN Err
    ELSE IF s[1] \in {"+", "-"} /\ Len(s) = 1 THEN Err
    ELSE IF s[1] = "+" THEN
        LET r == DigitLoop(Tail(s), 10, <<>>, I64Bits - 1) IN
        IF r.ok THEN Ok(IntVal(FALSE, r.v)) ELSE Err
    ELSE IF s[1] = "-" THEN
        LET r == DigitLoop(Tail(s), 10, <<>>, I64Bits) IN
        IF r.ok /\ (BitLen(r.v) < I64Bits \/ r.v = PowerOfTwo(I64Bits - 1))
        THEN Ok(IntVal(TRUE, r.v)) ELSE Err
    ELSE
        LET r == DigitLoop(s, 10, <<>>, I64Bits - 1) IN
        IF r.ok THEN Ok(IntVal(FALSE, r.v)) ELSE Err

(***************************************************************************)
(* Floats.  Dec: the exact decimal sig * 10^pow, sig without trailing      *)
(* zeros (what parsing a short decimal text gives).  Bin: the exact binary *)
(* mant * 2^exp2, mant odd (what converting an integer gives).             *)
(***************************************************************************)
RECURSIVE NormDec(_, _, _)
NormDec(neg, sig, pow) ==
    IF sig = 0 THEN [cls |-> "finite", base |-> 10, neg |-> neg, sig |-> 0, pow |-> 0]
    ELSE IF sig % 10 = 0 THEN NormDec(neg, sig \div 10, pow + 1)
    ELSE [cls |-> "finite", base |-> 10, neg |-> neg, sig |-> sig, pow |-> pow]

Inf(neg) == [cls |-> "inf", neg |-> neg]
NaN == [cls |-> "nan"]

RECURSIVE LowZeros(_)
LowZeros(b) == IF b = <<>> \/ b[1] = 1 THEN 0 ELSE 1 + LowZeros(Tail(b))

\* the exact value b * 2^e as a Bin float
NormBin(b, e) ==
    LET z == LowZeros(b) IN
    [cls |-> "finite", base |-> 2, neg |-> FALSE,
     mant |-> From(b, z + 1), exp2 |-> IF b = <<>> THEN 0 ELSE e + z]

\* u64 as f64: the 53 high bits are kept, the rest rounds to nearest, ties
\* to even
U64AsF64(b) ==
    IF BitLen(b) <= 53 THEN NormBin(b, 0)
    ELSE LET n == BitLen(b) - 53
             kept == From(b, n + 1)
             half == b[n]
             sticky == \E i \in 1..(n - 1) : b[i] = 1
             up == half = 1 /\ (sticky \/ kept[1] = 1)
         IN  NormBin(IF up THEN AddBits(kept, <<1>>) ELSE kept, n)

(***************************************************************************)
(* f64::from_str (dec2flt), which from_str calls for the mantissa          *)
(***************************************************************************)
UpperLetters == <<"A", "F", "I", "N", "T", "Y">>
LowerLetters == <<"a", "f", "i", "n", "t", "y">>

ToAsciiLower(c) ==
    IF \E i \in 1..Len(UpperLetters) : UpperLetters[i] = c
    THEN LowerLetters[CHOOSE i \in 1..Len(UpperLetters) : UpperLetters[i] = c]
    ELSE c

LowerText(s) == [i \in 1..Len(s) |-> ToAsciiLower(s[i])]

\* the number of consecutive decimal digits of s from index i on
RECURSIVE DigitRun(_, _)
DigitRun(s, i) ==
    IF i <= Len(s) /\ IsDigit(s[i]) THEN 1 + DigitRun(s, i + 1) ELSE 0

\* the value of a run of decimal digits
RECURSIVE DigitsNat(_)
DigitsNat(s) ==
    IF s = <<>> THEN 0
    ELSE 10 * DigitsNat(SubSeq(s, 1, Len(s) - 1)) + ToDigit(s[Len(s)], 10)

\* parse_scientific: the exponent stops growing at 0x10000
RECURSIVE ExpAccum(_, _)
ExpAccum(s, acc) ==
    IF s = <<>> THEN acc
    ELSE ExpAccum(Tail(s), IF acc < 65536 THEN 10 * acc + ToDigit(s[1], 10) ELSE acc)

ParseInfNan(s, neg) ==
    LET l == LowerText(s) IN
    IF l = <<"n", "a", "n">> THEN Ok(NaN)
    ELSE IF l = <<"i", "n", "f">> \/ l = <<"i", "n", "f", "i", "n", "i", "t", "y">>
    THEN Ok(Inf(neg))
    ELSE Err

\* s is the text after the sign
ParseNumber(s, neg) ==
    LET n1 == DigitRun(s, 1)
        dot == n1 + 1 <= Len(s) /\ s[n1 + 1] = "."
        n2 == IF dot THEN DigitRun(s, n1 + 2) ELSE 0
        e == n1 + (IF dot THEN 1 + n2 ELSE 0) + 1
        digits == SubSeq(s, 1, n1) \o (IF dot THEN SubSeq(s, n1 + 2, n1 + 1 + n2) ELSE <<>>)
    IN  IF n1 + n2 = 0 THEN ParseInfNan(s, neg)
        ELSE IF e > Len(s) THEN Ok(NormDec(neg, DigitsNat(digits), 0 - n2))
        ELSE IF s[e] \notin {"e", "E"} THEN Err
        ELSE LET signed == e + 1 <= Len(s) /\ s[e + 1] \in {"+", "-"}
                 d == IF signed THEN e + 2 ELSE e + 1
                 n3 == DigitRun(s, d)
                 x == ExpAccum(SubSeq(s, d, d + n3 - 1), 0)
             IN  IF n3 = 0 \/ d + n3 <= Len(s) THEN Err
                 ELSE Ok(NormDec(neg, DigitsNat(digits),
                                 IF signed /\ s[e + 1] = "-" THEN 0 - n2 - x ELSE x - n2))

ParseF64(s) ==
    IF s = <<>> THEN Err
    ELSE LET neg == s[1] = "-"
             rest == IF s[1] \in {"+", "-"} THEN Tail(s) ELSE s
         IN  IF rest = <<>> THEN Err ELSE ParseNumber(rest, neg)

(***************************************************************************)
(* DecimalNumber                                                           *)
(***************************************************************************)
Decimal_new(float) == [kind |-> "Decimal", float |-> float, exponent |-> None]

Decimal_with_exponent(self, exponent, is_uppercase) ==
    [self EXCEPT !.exponent = Some([value |-> exponent, is_uppercase |-> is_uppercase])]

\* a set_uppercase that replaces the exponent, as with_exponent does
Decimal_set_uppercase_replacing(self, is_uppercase) ==
    [self EXCEPT !.exponent =
        Some([value |-> IF self.exponent.some THEN self.exponent.v.value
                        ELSE IntVal(FALSE, <<>>),
              is_uppercase |-> is_uppercase])]

Decimal_set_uppercase(self, is_uppercase) ==
    [self EXCEPT !.exponent =
        IF self.exponent.some
        THEN Some([value |-> self.exponent.v.value, is_uppercase |-> is_uppercase])
        ELSE None]

\* Option<bool>
Decimal_is_uppercase(self) ==
    IF self.exponent.some THEN Some(self.exponent.v.is_uppercase) ELSE None

\* Option of the exponent's value
Decimal_get_exponent(self) ==
    IF self.exponent.some THEN Some(self.exponent.v.value) ELSE None

RECURSIVE NumDigits(_)
NumDigits(n) == IF n < 10 THEN 1 ELSE 1 + NumDigits(n \div 10)

\* float * 10_f64.powf(exponent as f64): float arithmetic never traps; the
\* product is kept as the exact decimal (its last-place rounding is left
\* out) and saturates to inf or 0 outside the range of f64
Decimal_compute_value(self) ==
    LET f == self.float IN
    IF ~self.exponent.some THEN [kind |-> "float", f |-> f, overflowed |-> FALSE]
    ELSE LET e == self.exponent.v.value
             huge == BitLen(e.mag) > 10
             tenInf == huge /\ ~e.neg
             tenZero == huge /\ e.neg
             n == IF e.neg THEN 0 - ToNat(e.mag) ELSE ToNat(e.mag)
             r == IF f.cls = "nan" THEN NaN
                  ELSE IF f.cls = "inf"
                  THEN (IF tenZero THEN NaN ELSE Inf(f.neg))
                  ELSE IF f.sig = 0
                  THEN (IF tenInf THEN NaN ELSE NormDec(f.neg, 0, 0))
                  ELSE IF tenInf THEN Inf(f.neg)
                  ELSE IF tenZero THEN NormDec(f.neg, 0, 0)
                  ELSE IF NumDigits(f.sig) + f.pow + n > 309 THEN Inf(f.neg)
                  ELSE IF NumDigits(f.sig) + f.pow + n < -323 THEN NormDec(f.neg, 0, 0)
                  ELSE NormDec(f.neg, f.sig, f.pow + n)
         IN  [kind |-> "float", f |-> r, overflowed |-> FALSE]

(***************************************************************************)
(* HexNumber                                                               *)
(***************************************************************************)
Hex_new(integer, is_x_uppercase) ==
    [kind |-> "Hex", integer |-> integer, exponent |-> None,
     is_x_uppercase |-> is_x_uppercase]

Hex_with_exponent(self, exponent, is_uppercase) ==
    [self EXCEPT !.exponent = Some([value |-> exponent, is_uppercase |-> is_uppercase])]

\* a set_uppercase that leaves the 0x prefix alone
Hex_set_uppercase_exponent_only(self, is_uppercase) ==
    [self EXCEPT !.exponent =
                    IF self.exponent.some
                    THEN Some([value |-> self.exponent.v.value,
                               is_uppercase |-> is_uppercase])
                    ELSE None]

Hex_set_uppercase(self, is_uppercase) ==
    [self EXCEPT !.exponent =
                    IF self.exponent.some
                    THEN Some([value |-> self.exponent.v.value,
                               is_uppercase |-> is_uppercase])
                    ELSE None,
                 !.is_x_uppercase = is_uppercase]

\* (self.integer * 2_u64.pow(exponent)) as f64.  Both pow and * are u64
\* operations: with overflow checks (a debug build) an overflow panics,
\* without them (a release build) it wraps modulo 2^64.
Hex_compute_value(self, checks) ==
    IF ~self.exponent.some
    THEN [kind |-> "float", f |-> U64AsF64(self.integer), overflowed |-> FALSE]
    ELSE LET e == self.exponent.v.value
             powOverflows == BitLen(e) > 6
             power == IF powOverflows THEN <<>> ELSE PowerOfTwo(ToNat(e))
             exact == IF powOverflows THEN <<>> ELSE ShiftLeft(self.integer, ToNat(e))
             mulOverflows == BitLen(exact) > U64Bits
             overflows == powOverflows \/ mulOverflows
         IN  IF overflows /\ checks THEN [kind |-> "panic"]
             ELSE [kind |-> "float", f |-> U64AsF64(Wrap(exact, U64Bits)),
                   overflowed |-> overflows]

(***************************************************************************)
(* NumberExpression                                                        *)
(***************************************************************************)
set_uppercase(self, is_uppercase) ==
    IF self.kind = "Decimal" THEN Decimal_set_uppercase(self, is_uppercase)
    ELSE Hex_set_uppercase(self, is_uppercase)

compute_value(self, checks) ==
    IF self.kind = "Decimal" THEN Decimal_compute_value(self)
    ELSE Hex_compute_value(self, checks)

Error(kind) == [ok |-> FALSE, err |-> kind]

\* the three branches of the hexadecimal path
HexWithMarker(value, index, is_x_uppercase, marker_uppercase) ==
    LET exponent == ParseUnsigned(From(value, index + 1), 10, U32Bits)
        integer == ParseUnsigned(SubSeq(value, 3, index - 1), 16, U64Bits)
    IN  IF ~exponent.ok THEN Error("InvalidHexadecimalExponent")
        ELSE IF ~integer.ok THEN Error("InvalidHexadecimalNumber")
        ELSE Ok(Hex_with_exponent(Hex_new(integer.v, is_x_uppercase),
                                  exponent.v, marker_uppercase))

\* the prefix case read from the first character instead of the second
HexFromStr_first_char(value) ==
    LET is_x_uppercase == value[1] = "X" IN
    IF Find(value, "p") # 0
    THEN HexWithMarker(value, Find(value, "p"), is_x_uppercase, FALSE)
    ELSE IF Find(value, "P") # 0
    THEN HexWithMarker(value, Find(value, "P"), is_x_uppercase, TRUE)
    ELSE LET integer == ParseUnsigned(From(value, 3), 16, U64Bits) IN
         IF ~integer.ok THEN Error("InvalidHexadecimalNumber")
         ELSE Ok(Hex_new(integer.v, is_x_uppercase))

HexFromStr(value) ==
    LET is_x_uppercase == value[2] = "X" IN
    IF Find(value, "p") # 0
    THEN HexWithMarker(value, Find(value, "p"), is_x_uppercase, FALSE)
    ELSE IF Find(value, "P") # 0
    THEN HexWithMarker(value, Find(value, "P"), is_x_uppercase, TRUE)
    ELSE LET integer == ParseUnsigned(From(value, 3), 16, U64Bits) IN
         IF ~integer.ok THEN Error("InvalidHexadecimalNumber")
         ELSE Ok(Hex_new(integer.v, is_x_uppercase))

\* the three branches of the decimal path
\* a bad exponent reported with the error of a bad mantissa
DecimalWithMarker_one_error(value, index, marker_uppercase) ==
    LET exponent == ParseI64(From(value, index + 1))
        float == ParseF64(SubSeq(value, 1, index - 1))
    IN  IF ~exponent.ok \/ ~float.ok THEN Error("InvalidDecimalNumber")
        ELSE Ok(Decimal_with_exponent(Decimal_new(float.v), exponent.v,
                                      marker_uppercase))

DecimalWithMarker(value, index, marker_uppercase) ==
    LET exponent == ParseI64(From(value, index + 1))
        float == ParseF64(SubSeq(value, 1, index - 1))
    IN  IF ~exponent.ok THEN Error("InvalidDecimalExponent")
        ELSE IF ~float.ok THEN Error("InvalidDecimalNumber")
        ELSE Ok(Decimal_with_exponent(Decimal_new(float.v), exponent.v,
                                      marker_uppercase))

DecimalFromStr(value) ==
    IF Find(value, "e") # 0
    THEN DecimalWithMarker(value, Find(value, "e"), FALSE)
    ELSE IF Find(value, "E") # 0
    THEN DecimalWithMarker(value, Find(value, "E"), TRUE)
    ELSE LET float == ParseF64(value) IN
         IF ~float.ok THEN Error("InvalidDecimalNumber")
         ELSE Ok(Decimal_new(float.v))

from_str(value) ==
    IF StartsWith(value, <<"0", "x">>) \/ StartsWith(value, <<"0", "X">>)
    THEN HexFromStr(value)
    ELSE DecimalFromStr(value)

(***************************************************************************)
(* Inputs                                                                  *)
(***************************************************************************)
Prefixes == {<<>>, <<"0", "x">>, <<"0", "X">>}

BodyChars == {"0", "1", "e", "E", "p", "P", ".", "+", "-"}

RECURSIVE SeqsOfLen(_, _)
SeqsOfLen(S, n) ==
    IF n = 0 THEN {<<>>}
    ELSE {Append(t, c) : t \in SeqsOfLen(S, n - 1), c \in S}

\* every body of at most MaxLen characters
Bodies == UNION {SeqsOfLen(BodyChars, n) : n \in 0..MaxLen}

\* the inputs of the test suite, the words f64 knows, texts with markers of
\* both cases, and texts at the limits of u64, u32 and i64
LongTexts ==
    {<<"0", "x", "1", "2", "p", "4">>,
     <<"0", "x", "A", "B", "P", "3">>,
     <<"0", "x", "1", "b", "F", "2", "A">>,
     <<"1", "2", "3", "e", "+", "4", "5", "6">>,
     <<"1", "2", "3", "E", "-", "4", "5", "6">>,
     <<"1", "0", ".", "1", "2", "e", "8">>,
     <<"1", "E", "2", "e", "3">>,
     <<"0", "x", "1", "P", "2", "p", "3">>,
     <<"0", "x", "1", "p", "2", "P", "3">>,
     <<"1", "e", "2", "E", "3">>,
     <<"i", "n", "f">>,
     <<"n", "a", "n">>,
     <<"i", "n", "f", "i", "n", "i", "t", "y">>,
     <<"+", "i", "n", "f">>,
     <<"-", "n", "a", "n">>,
     <<"I", "N", "F">>,
     <<"N", "a", "N">>,
     <<"I", "n", "f", "i", "n", "i", "t", "y">>,
     <<"-", "1", ".", "5">>,
     <<"i", "n", "f", "e", "1">>,
     <<"0", "x", "f", "f", "f", "f", "f", "f", "f", "f", "f", "f", "f", "f", "f", "f", "f", "f">>,
     <<"0", "x", "1", "0", "0", "0", "0", "0", "0", "0", "0", "0", "0", "0", "0", "0", "0", "0", "0">>,
     <<"0", "x", "0", "0", "0", "0", "0", "0", "0", "0", "0", "0", "0", "0", "0", "0", "0", "0", "1">>,
     <<"0", "x", "1", "p", "4", "2", "9", "4", "9", "6", "7", "2", "9", "5">>,
     <<"0", "x", "1", "p", "4", "2", "9", "4", "9", "6", "7", "2", "9", "6">>,
     <<"0", "x", "1", "P", "6", "3">>,
     <<"0", "x", "1", "p", "6", "4">>,
     <<"0", "x", "0", "p", "6", "4">>,
     <<"0", "x", "2", "p", "6", "3">>,
     <<"0", "x", "3", "P", "6", "2">>,
     <<"0", "x", "8", "0", "0", "0", "0", "0", "0", "0", "0", "0", "0", "0", "0", "0", "0", "1">>,
     <<"0", "x", "f", "f", "f", "f", "f", "f", "f", "f", "f", "f", "f", "f", "f", "b", "f", "f">>,
     <<"0", "x", "f", "f", "f", "f", "f", "f", "f", "f", "f", "f", "f", "f", "f", "c", "0", "0">>,
     <<"1", "e", "9", "2", "2", "3", "3", "7", "2", "0", "3", "6", "8", "5", "4", "7", "7", "5", "8", "0", "7">>,
     <<"1", "e", "9", "2", "2", "3", "3", "7", "2", "0", "3", "6", "8", "5", "4", "7", "7", "5", "8", "0", "8">>,
     <<"1", "E", "-", "9", "2", "2", "3", "3", "7", "2", "0", "3", "6", "8", "5", "4", "7", "7", "5", "8", "0", "8">>,
     <<"1", "e", "-", "9", "2", "2", "3", "3", "7", "2", "0", "3", "6", "8", "5", "4", "7", "7", "5", "8", "0", "9">>,
     <<"1", "e", "4", "0", "0">>,
     <<"1", "e", "-", "4", "0", "0">>,
     <<"0", "e", "4", "0", "0">>,
     <<"i", "n", "f", "e", "-", "4", "0", "0">>,
     <<"1", "2", "3", "e", "-", "4">>}

U64Values ==
    {<<>>, <<1>>, FromNat(18), AddBits(PowerOfTwo(53), <<1>>),
     PowerOfTwo(U64Bits - 1), Ones(U64Bits)}

U32Values ==
    {<<>>, <<1>>, FromNat(4), FromNat(63), FromNat(64), Ones(U32Bits)}

I64Values ==
    {IntVal(FALSE, <<>>), IntVal(FALSE, FromNat(2)), IntVal(TRUE, FromNat(4)),
     IntVal(FALSE, Ones(I64Bits - 1)), IntVal(TRUE, PowerOfTwo(I64Bits - 1))}

Floats ==
    {NormDec(FALSE, 0, 0), NormDec(FALSE, 1, 0), NormDec(TRUE, 15, -1),
     Inf(FALSE), NaN}

(***************************************************************************)
(* The state machine: a caller that parses a text or builds a literal,     *)
(* then changes the case of its markers and computes its value.            *)
(*   text      the text given to from_str (None before, and for a built    *)
(*             literal)                                                    *)
(*   result    what from_str returned                                      *)
(*   number    the literal the caller holds                                *)
(*   initial   the literal as it was before the set_uppercase calls        *)
(*   lastArg   the argument of the last set_uppercase call                 *)
(*   computed  what the last compute_value call returned                   *)
(*   overflow_checks  whether the build checks integer overflow            *)
(*   pc        start, parsed, failed, built, aborted                       *)
(***************************************************************************)
Init ==
    /\ text = None
    /\ result = None
    /\ number = None
    /\ initial = None
    /\ lastArg = None
    /\ computed = None
    /\ overflow_checks \in BOOLEAN
    /\ pc = "start"

Returned(t, r) ==
    /\ text' = Some(t)
    /\ result' = Some(r)
    /\ number' = IF r.ok THEN Some(r.v) ELSE None
    /\ initial' = IF r.ok THEN Some(r.v) ELSE None
    /\ pc' = IF r.ok THEN "parsed" ELSE "failed"
    /\ UNCHANGED <<lastArg, computed, overflow_checks>>

\* text.parse::<NumberExpression>()
Parse ==
    /\ pc = "start"
    /\ \/ \E p \in Prefixes, b \in Bodies : Returned(p \o b, from_str(p \o b))
       \/ \E t \in LongTexts : Returned(t, from_str(t))

Built(n) ==
    /\ number' = Some(n)
    /\ initial' = Some(n)
    /\ lastArg' = None
    /\ computed' = None
    /\ pc' = "built"
    /\ UNCHANGED <<text, result, overflow_checks>>

NewDecimal ==
    /\ pc = "start"
    /\ \E f \in Floats : Built(Decimal_new(f))

NewHex ==
    /\ pc = "start"
    /\ \E i \in U64Values, x \in BOOLEAN : Built(Hex_new(i, x))

DecimalWithExponent ==
    /\ pc = "built"
    /\ number.v.kind = "Decimal"
    /\ \E e \in I64Values, u \in BOOLEAN : Built(Decimal_with_exponent(number.v, e, u))

HexWithExponent ==
    /\ pc = "built"
    /\ number.v.kind = "Hex"
    /\ \E e \in U32Values, u \in BOOLEAN : Built(Hex_with_exponent(number.v, e, u))

SetUppercase ==
    /\ pc \in {"parsed", "built"}
    /\ \E b \in BOOLEAN :
        /\ number' = Some(set_uppercase(number.v, b))
        /\ lastArg' = Some(b)
    /\ UNCHANGED <<text, result, initial, computed, overflow_checks, pc>>

ComputeValue ==
    /\ pc \in {"parsed", "built"}
    /\ computed' = Some(compute_value(number.v, overflow_checks))
    /\ pc' = IF computed'.v.kind = "panic" THEN "aborted" ELSE pc
    /\ UNCHANGED <<text, result, number, initial, lastArg, overflow_checks>>

Next ==
    \/ Parse
    \/ NewDecimal
    \/ NewHex
    \/ DecimalWithExponent
    \/ HexWithExponent
    \/ SetUppercase
    \/ ComputeValue

Spec == Init /\ [][Next]_vars

(***************************************************************************)
(* What the properties read: the text grammar and the value of a run of    *)
(* digits, stated on their own (not through the parsers above)             *)
(***************************************************************************)
HexDigitValue ==
    ("0" :> 0) @@ ("1" :> 1) @@ ("2" :> 2) @@ ("3" :> 3) @@ ("4" :> 4) @@
    ("5" :> 5) @@ ("6" :> 6) @@ ("7" :> 7) @@ ("8" :> 8) @@ ("9" :> 9) @@
    ("a" :> 10) @@ ("b" :> 11) @@ ("c" :> 12) @@ ("d" :> 13) @@ ("e" :> 14) @@
    ("f" :> 15) @@ ("A" :> 10) @@ ("B" :> 11) @@ ("C" :> 12) @@ ("D" :> 13) @@
    ("E" :> 14) @@ ("F" :> 15)

DecDigits == {"0", "1", "2", "3", "4", "5", "6", "7", "8", "9"}
HexDigits == DOMAIN HexDigitValue

AllIn(s, S) == \A i \in 1..Len(s) : s[i] \in S

IsHexText(t) == Len(t) >= 2 /\ t[1] = "0" /\ t[2] \in {"x", "X"}

\* the positions of the exponent-marker characters of a text: p/P in a
\* hexadecimal text, e/E in any other
Markers(t) ==
    {i \in 1..Len(t) : t[i] \in (IF IsHexText(t) THEN {"p", "P"} ELSE {"e", "E"})}

FirstMarker(t) ==
    IF Markers(t) = {} THEN 0
    ELSE CHOOSE i \in Markers(t) : \A j \in Markers(t) : i <= j

\* the part before the first marker (after the prefix of a hexadecimal text)
\* and the part after it
MantissaPart(t) ==
    SubSeq(t, IF IsHexText(t) THEN 3 ELSE 1,
           IF FirstMarker(t) = 0 THEN Len(t) ELSE FirstMarker(t) - 1)

ExponentPart(t) == From(t, FirstMarker(t) + 1)

Unsigned(s) == IF s # <<>> /\ s[1] = "+" THEN Tail(s) ELSE s

BitAt(b, i) == IF i <= Len(b) THEN b[i] ELSE 0

\* the k-th base-16 digit of b, from the right, k = 0 the last
NibbleAt(b, k) ==
    BitAt(b, 4 * k + 1) + 2 * BitAt(b, 4 * k + 2) + 4 * BitAt(b, 4 * k + 3)
        + 8 * BitAt(b, 4 * k + 4)

\* b is the base-16 value of the digits s
HexValueIs(b, s) ==
    /\ s # <<>>
    /\ AllIn(s, HexDigits)
    /\ BitLen(b) <= 4 * Len(s)
    /\ \A k \in 0..(Len(s) - 1) : NibbleAt(b, k) = HexDigitValue[s[Len(s) - k]]

ValueModulus == 2 ^ 24

RECURSIVE PowMod(_, _)
PowMod(r, k) == IF k = 0 THEN 1 ELSE (r * PowMod(r, k - 1)) % ValueModulus

\* the sum of digit * 10^position, modulo ValueModulus
RECURSIVE DecSumMod(_)
DecSumMod(s) ==
    IF s = <<>> THEN 0
    ELSE (HexDigitValue[s[1]] * PowMod(10, Len(s) - 1) + DecSumMod(Tail(s)))
            % ValueModulus

LowNat(b) == ToNat(SubSeq(b, 1, IF Len(b) < 24 THEN Len(b) ELSE 24))

\* b is the base-10 value of the digits s: exactly for up to 7 digits, in
\* its low 24 bits beyond
DecValueIs(b, s) ==
    /\ s # <<>>
    /\ AllIn(s, DecDigits)
    /\ LowNat(b) = DecSumMod(s)
    /\ Len(s) <= 7 => BitLen(b) <= 24

\* v is the signed base-10 value of s, an explicit sign accepted
SignedValueIs(v, s) ==
    /\ s # <<>>
    /\ LET digits == IF s[1] \in {"+", "-"} THEN Tail(s) ELSE s IN
       /\ DecValueIs(v.mag, digits)
       /\ v.neg = (s[1] = "-" /\ v.mag # <<>>)

\* digits, an optional '.', digits: every part optional
PlainMantissa(s) ==
    \E i \in 0..Len(s) :
        /\ AllIn(SubSeq(s, 1, i), DecDigits)
        /\ \/ i = Len(s)
           \/ s[i + 1] = "." /\ AllIn(From(s, i + 2), DecDigits)

RECURSIVE Pow10(_)
Pow10(k) == IF k = 0 THEN 1 ELSE 10 * Pow10(k - 1)

\* f is the value of the unsigned mantissa s
MagnitudeIs(f, s) ==
    IF PlainMantissa(s) THEN
        LET dot == Find(s, ".")
            frac == IF dot = 0 THEN 0 ELSE Len(s) - dot
            digits == IF dot = 0 THEN s ELSE SubSeq(s, 1, dot - 1) \o From(s, dot + 1)
        IN  /\ digits # <<>>
            /\ f.cls = "finite"
            /\ f.pow + frac >= 0
            /\ f.sig * Pow10(f.pow + frac) = DecSumMod(digits)
    ELSE LET w == LowerText(s) IN
         \/ w = <<"n", "a", "n">> /\ f.cls = "nan"
         \/ w \in {<<"i", "n", "f">>, <<"i", "n", "f", "i", "n", "i", "t", "y">>}
            /\ f.cls = "inf"

\* f is the value of the mantissa s
FloatIs(f, s) ==
    /\ s # <<>>
    /\ MagnitudeIs(f, IF s[1] \in {"+", "-"} THEN Tail(s) ELSE s)
    /\ f.cls # "nan" => f.neg = (s[1] = "-")

ParsedOk == text.some /\ result.v.ok

(***************************************************************************)
(* C1: a successfully parsed text with at most one exponent marker gives,  *)
(* when it begins with 0x or 0X, a Hex literal whose integer is the        *)
(* base-16 value of the digits before the p/P marker (of the whole         *)
(* remainder without one, e/E being digits), whose is_x_uppercase tells    *)
(* the 0X prefix and whose exponent is present exactly with a p/P marker,  *)
(* holding the value of the digits after it and the marker's case; any     *)
(* other text gives a Decimal literal whose float is the mantissa before   *)
(* the e/E marker (or the whole text) and whose exponent is present        *)
(* exactly with an e/E marker, holding the signed value after it and the   *)
(* marker's case.                                                          *)
(***************************************************************************)
C1_ParsedLiteral ==
    (ParsedOk /\ Cardinality(Markers(text.v)) <= 1) =>
        LET t == text.v
            n == result.v.v
            m == FirstMarker(t)
        IN  IF IsHexText(t)
            THEN /\ n.kind = "Hex"
                 /\ HexValueIs(n.integer, Unsigned(MantissaPart(t)))
                 /\ n.is_x_uppercase = (t[2] = "X")
                 /\ n.exponent.some = (m # 0)
                 /\ m # 0 =>
                        /\ DecValueIs(n.exponent.v.value, Unsigned(ExponentPart(t)))
                        /\ n.exponent.v.is_uppercase = (t[m] = "P")
            ELSE /\ n.kind = "Decimal"
                 /\ FloatIs(n.float, MantissaPart(t))
                 /\ n.exponent.some = (m # 0)
                 /\ m # 0 =>
                        /\ SignedValueIs(n.exponent.v.value, ExponentPart(t))
                        /\ n.exponent.v.is_uppercase = (t[m] = "E")

\* a hexadecimal text with an upper-case prefix, the digit E and a P marker
C1_Witness ==
    /\ ParsedOk
    /\ text.v = <<"0", "X", "1", "E", "P", "1">>
    /\ result.v.v.kind = "Hex"

DanglingDecimalExponent(t) ==
    /\ ~IsHexText(t)
    /\ FirstMarker(t) # 0
    /\ PlainMantissa(MantissaPart(t))
    /\ ExponentPart(t) \in {<<>>, <<"+">>, <<"-">>}

BadHexExponent(t) ==
    /\ IsHexText(t)
    /\ FirstMarker(t) # 0
    /\ AllIn(MantissaPart(t), HexDigits)
    /\ \/ ExponentPart(t) = <<>>
       \/ /\ Len(ExponentPart(t)) >= 2
          /\ ExponentPart(t)[1] = "-"
          /\ AllIn(Tail(ExponentPart(t)), DecDigits)

(***************************************************************************)
(* C2: the empty text gives InvalidDecimalNumber; a decimal text with a    *)
(* well-formed mantissa whose e/E marker is followed by nothing or by only *)
(* a sign gives InvalidDecimalExponent; a hexadecimal text with            *)
(* well-formed hex digits whose p/P marker is followed by nothing, or by   *)
(* '-' and digits, gives InvalidHexadecimalExponent.                       *)
(***************************************************************************)
C2_ExponentErrors ==
    text.some =>
        /\ text.v = <<>> => result.v = Error("InvalidDecimalNumber")
        /\ DanglingDecimalExponent(text.v) => result.v = Error("InvalidDecimalExponent")
        /\ BadHexExponent(text.v) => result.v = Error("InvalidHexadecimalExponent")

\* a negative hexadecimal exponent with well-formed digits was rejected
C2_Witness ==
    /\ text.some
    /\ text.v = <<"0", "x", "1", "p", "-", "1">>
    /\ pc = "failed"

\* 0x or 0X, hex digits, p or P, a sign, digits
SignedHexExponent(t) ==
    /\ IsHexText(t)
    /\ FirstMarker(t) # 0
    /\ MantissaPart(t) # <<>>
    /\ AllIn(MantissaPart(t), HexDigits)
    /\ Len(ExponentPart(t)) >= 2
    /\ ExponentPart(t)[1] \in {"+", "-"}
    /\ AllIn(Tail(ExponentPart(t)), DecDigits)

(***************************************************************************)
(* C3: every hexadecimal text whose exponent carries a sign, '-' or '+',   *)
(* followed by well-formed digits is rejected with                         *)
(* InvalidHexadecimalExponent; none gives a Hex literal.                   *)
(***************************************************************************)
C3_SignedHexExponentRejected ==
    (text.some /\ SignedHexExponent(text.v)) =>
        result.v = Error("InvalidHexadecimalExponent")

ListedInvalid ==
    {<<>>, <<"1", "e">>, <<"1", "e", "-">>, <<"0", "x", "1", "p">>,
     <<"0", "x", "1", "p", "-", "3">>}

\* read strictly: at least one digit in the mantissa and in an exponent
GrammarText(t) ==
    /\ Cardinality(Markers(t)) <= 1
    /\ IF IsHexText(t)
       THEN /\ MantissaPart(t) # <<>>
            /\ AllIn(MantissaPart(t), HexDigits)
            /\ FirstMarker(t) # 0 =>
                   ExponentPart(t) # <<>> /\ AllIn(ExponentPart(t), DecDigits)
       ELSE /\ PlainMantissa(MantissaPart(t))
            /\ \E i \in 1..Len(MantissaPart(t)) : MantissaPart(t)[i] \in DecDigits
            /\ FirstMarker(t) # 0 =>
                   LET x == ExponentPart(t)
                       digits == IF x # <<>> /\ x[1] \in {"+", "-"} THEN Tail(x) ELSE x
                   IN  digits # <<>> /\ AllIn(digits, DecDigits)

(***************************************************************************)
(* C4: every text of the literal grammar (decimal: digits, an optional     *)
(* '.', digits, an optional e/E with optionally signed digits;             *)
(* hexadecimal: 0x/0X, hex digits, an optional p/P with digits), with any  *)
(* number of digits, is accepted: apart from the five listed invalid       *)
(* inputs no text of the grammar gives a NumberParsingError.               *)
(***************************************************************************)
C4_GrammarAccepted ==
    (text.some /\ GrammarText(text.v) /\ text.v \notin ListedInvalid) => result.v.ok

(***************************************************************************)
(* C5: for a DecimalNumber, after any sequence of set_uppercase calls the  *)
(* float, the presence of the exponent and the exponent's value are the    *)
(* initial ones; without an exponent the literal equals the initial one    *)
(* and is_uppercase() stays None; with one, is_uppercase() is Some of the  *)
(* last argument.                                                          *)
(***************************************************************************)
C5_DecimalSetUppercase ==
    (number.some /\ number.v.kind = "Decimal") =>
        LET n == number.v
            i == initial.v
        IN  /\ n.float = i.float
            /\ n.exponent.some = i.exponent.some
            /\ Decimal_get_exponent(n) = Decimal_get_exponent(i)
            /\ ~i.exponent.some => n = i /\ Decimal_is_uppercase(n) = None
            /\ (i.exponent.some /\ lastArg.some) =>
                   Decimal_is_uppercase(n) = Some(lastArg.v)

\* a decimal literal whose marker case a call changed
C5_Witness ==
    /\ number.some
    /\ number.v.kind = "Decimal"
    /\ lastArg.some
    /\ initial.v.exponent.some
    /\ initial.v.exponent.v.is_uppercase # lastArg.v

(***************************************************************************)
(* C6: for a HexNumber, set_uppercase(b) sets is_x_uppercase to b with or  *)
(* without an exponent, sets the exponent's marker case to b exactly when  *)
(* an exponent is present and leaves it absent otherwise, and changes      *)
(* neither the integer nor the exponent's value: after any sequence of     *)
(* calls both flags equal the last argument.                               *)
(***************************************************************************)
C6_HexSetUppercase ==
    (number.some /\ number.v.kind = "Hex" /\ lastArg.some) =>
        LET n == number.v
            i == initial.v
        IN  /\ n.is_x_uppercase = lastArg.v
            /\ n.integer = i.integer
            /\ n.exponent.some = i.exponent.some
            /\ n.exponent.some =>
                   /\ n.exponent.v.is_uppercase = lastArg.v
                   /\ n.exponent.v.value = i.exponent.v.value

\* a hexadecimal literal without exponent whose prefix case a call changed
C6_Witness ==
    /\ number.some
    /\ number.v.kind = "Hex"
    /\ lastArg.some
    /\ ~number.v.exponent.some
    /\ initial.v.is_x_uppercase # lastArg.v

\* exponents beyond 127 are 7 bits and more: the product of a non-zero
\* integer cannot fit
ProductFits(n) ==
    \/ ~n.exponent.some
    \/ n.integer = <<>>
    \/ BitLen(n.exponent.v.value) <= 7
       /\ BitLen(n.integer) + ToNat(n.exponent.v.value) <= U64Bits

Product(n) ==
    IF ~n.exponent.some \/ n.integer = <<>> THEN n.integer
    ELSE Zeros(ToNat(n.exponent.v.value)) \o n.integer

(***************************************************************************)
(* C7: HexNumber::compute_value returns the product integer * 2^exponent,  *)
(* converted to float, for every hex literal whose product fits in 64      *)
(* bits; the integer itself without an exponent; and the same for an       *)
(* exponent of 0 as for none.                                              *)
(***************************************************************************)
C7_HexValue ==
    (computed.some /\ number.v.kind = "Hex" /\ ProductFits(number.v)) =>
        /\ computed.v.kind = "float"
        /\ computed.v.f = U64AsF64(Product(number.v))

\* the part of C7 the code keeps: exponents below 64
HexValueBelow64 ==
    (computed.some /\ number.v.kind = "Hex" /\ ProductFits(number.v)
        /\ (number.v.exponent.some => BitLen(number.v.exponent.v.value) <= 6)) =>
        /\ computed.v.kind = "float"
        /\ ~computed.v.overflowed
        /\ computed.v.f = U64AsF64(Product(number.v))

ErrorKinds ==
    {"InvalidHexadecimalNumber", "InvalidHexadecimalExponent",
     "InvalidDecimalNumber", "InvalidDecimalExponent"}

(***************************************************************************)
(* C8: no operation panics or overflows: from_str returns a literal or one *)
(* of the four NumberParsingError kinds, and compute_value returns a float *)
(* without an arithmetic overflow or abort for every literal from_str can  *)
(* return or HexNumber::new / with_exponent can build.                     *)
(***************************************************************************)
C8_NoPanicNoOverflow ==
    /\ text.some => (result.v.ok \/ result.v.err \in ErrorKinds)
    /\ computed.some => (computed.v.kind = "float" /\ ~computed.v.overflowed)
    /\ pc # "aborted"

BothCases(t) ==
    /\ \E i \in Markers(t) : t[i] \in {"e", "p"}
    /\ \E i \in Markers(t) : t[i] \in {"E", "P"}

SplitAtEarliest(t) ==
    IF IsHexText(t)
    THEN HexWithMarker(t, FirstMarker(t), t[2] = "X", t[FirstMarker(t)] = "P")
    ELSE DecimalWithMarker(t, FirstMarker(t), t[FirstMarker(t)] = "E")

(***************************************************************************)
(* C9: the split point is the first occurrence of the marker character in  *)
(* either case: for a text with markers of both cases the mantissa is the  *)
(* part before the earliest marker, the exponent the part after it, and    *)
(* the recorded case that of the earliest marker.                          *)
(***************************************************************************)
C9_EarliestMarkerSplits ==
    (text.some /\ BothCases(text.v)) => result.v = SplitAtEarliest(text.v)

(***************************************************************************)
(* C10: from_str returns a Decimal literal only for texts of the decimal   *)
(* grammar: a text that is not hexadecimal and whose mantissa is not       *)
(* digits, an optional '.', digits (a leading sign, inf, infinity, nan) is *)
(* rejected.                                                               *)
(***************************************************************************)
C10_DecimalOnlyForGrammar ==
    (ParsedOk /\ result.v.v.kind = "Decimal") => PlainMantissa(MantissaPart(text.v))

=============================================================================
